---- MODULE Spec2Model ----
(***************************************************************************)
(* Dual contouring on a single edge (src/src/dual_contouring.rs).          *)
(*                                                                         *)
(* extract(voxels, edge, poly) is modelled as a state machine whose steps  *)
(* are the calls it makes to the voxel storage: the two get_material       *)
(* calls of crossing(), one step per candidate of resolve_voxels() and the *)
(* polygon assembly.  The storage is the environment: each answer is       *)
(* chosen when the query is issued and remembered, so that a second call   *)
(* of extract sees an unchanged backend.                                   *)
(*                                                                         *)
(* Points and vectors are triples.  f32 coordinates are fixed-point        *)
(* integers in units of 1/4; the storage only hands out whole numbers      *)
(* (multiples of 4), for which the sums and the division by 4.0 of the     *)
(* centre computation are exact in f32 as well.  The sample of a cell is   *)
(* a fixed function of the cell; which cell answers a query is free.       *)
(***************************************************************************)
EXTENDS Integers, Sequences, FiniteSets, TLC

VARIABLES
  edge,                 \* the edge::T passed to extract
  materials,            \* storage: get_material answers given so far
  voxel_data,           \* storage: get_voxel_data answers given so far
  pc,                   \* position inside extract
  material,             \* crossing(): material at the low corner bounds
  neighbor_material,    \* crossing(): material at the high corner bounds
  cross,                \* the Crossing returned by crossing()
  candidates,           \* resolve_voxels(): the bounds iterator, as a sequence
  idx,                  \* resolve_voxels(): position of the iterator
  resolved_bounds,      \* resolve_voxels(): Vec of bounds returned by storage
  resolved_voxel_data,  \* resolve_voxels(): Vec of (vertex, normal)
  material_calls,       \* get_material calls issued by this extract: <<bounds, answer>>
  data_calls,           \* get_voxel_data calls issued by this extract: <<bounds, answer>>
  polys,                \* polygons handed to the on_polygon callback, in order
  result,               \* "running", "Ok", "Err" or "panic"
  call,                 \* "first" or "second" invocation of extract
  prev                  \* outcome of the first invocation, once it has returned

vars == <<edge, materials, voxel_data, pc, material, neighbor_material, cross,
          candidates, idx, resolved_bounds, resolved_voxel_data,
          material_calls, data_calls, polys, result, call, prev>>

(***************************************************************************)
(* Bounds of the model                                                     *)
(***************************************************************************)
\* low corner coordinates of an edge range over 0..MaxCoord
MaxCoord == 1
\* lg_size of an edge ranges over 0..MaxLgSize
MaxLgSize == 0

\* Option::None of a material answer, and of a voxel data answer
None == "None"
NoData == [bounds |-> "None"]

(***************************************************************************)
(* Vectors                                                                 *)
(***************************************************************************)
Vec3(a, b, c) == <<a, b, c>>

Add(p, v) == <<p[1] + v[1], p[2] + v[2], p[3] + v[3]>>

\* a division by 2.0 where the code divides by 4.0
Div2(v) == <<v[1] \div 2, v[2] \div 2, v[3] \div 2>>

\* division of a vector by 4.0
Div4(v) == <<v[1] \div 4, v[2] \div 4, v[3] \div 4>>

(***************************************************************************)
(* voxel_data::bounds                                                      *)
(***************************************************************************)
RECURSIVE Pow2(_)
Pow2(n) == IF n <= 0 THEN 1 ELSE 2 * Pow2(n - 1)

BoundsNew(x, y, z, lg_size) == [x |-> x, y |-> y, z |-> z, lg_size |-> lg_size]

\* self.contains(other): other is no coarser than self and lies inside it
Contains(self, other) ==
  /\ other.lg_size <= self.lg_size
  /\ LET r == Pow2(self.lg_size - other.lg_size)
     IN  /\ self.x * r <= other.x /\ other.x < (self.x + 1) * r
         /\ self.y * r <= other.y /\ other.y < (self.y + 1) * r
         /\ self.z * r <= other.z /\ other.z < (self.z + 1) * r

(***************************************************************************)
(* material::T, instantiated with two transparent and two opaque materials *)
(***************************************************************************)
Material == {"Air", "Water", "Stone", "Dirt"}

is_opaque(m) == m \in {"Stone", "Dirt"}

(***************************************************************************)
(* edge                                                                    *)
(***************************************************************************)
Direction == {"X", "Y", "Z"}

Edges ==
  [low_corner : (0..MaxCoord) \X (0..MaxCoord) \X (0..MaxCoord),
   lg_size : 0..MaxLgSize,
   direction : Direction]

corner_bounds(e) ==
  LET p0 == e.low_corner
      d  == CASE e.direction = "X" -> Vec3(1, 0, 0)
              [] e.direction = "Y" -> Vec3(0, 1, 0)
              [] e.direction = "Z" -> Vec3(0, 0, 1)
      p1 == Add(p0, d)
  IN  << BoundsNew(p0[1], p0[2], p0[3], e.lg_size),
         BoundsNew(p1[1], p1[2], p1[3], e.lg_size) >>

\* neighbors() with the two offsets of the Y axis exchanged
neighborsYSwapped(e) ==
  LET v  == CASE e.direction = "X" -> <<Vec3(0, 0, -1), Vec3(0, -1, 0)>>
              [] e.direction = "Y" -> <<Vec3(0, 0, -1), Vec3(-1, 0, 0)>>
              [] e.direction = "Z" -> <<Vec3(0, -1, 0), Vec3(-1, 0, 0)>>
      v1 == v[1]
      v2 == v[2]
      make_bounds(p) == BoundsNew(p[1], p[2], p[3], e.lg_size)
  IN  << make_bounds(e.low_corner),
         make_bounds(Add(e.low_corner, v1)),
         make_bounds(Add(Add(e.low_corner, v1), v2)),
         make_bounds(Add(e.low_corner, v2)) >>

neighbors(e) ==
  LET v  == CASE e.direction = "X" -> <<Vec3(0, 0, -1), Vec3(0, -1, 0)>>
              [] e.direction = "Y" -> <<Vec3(-1, 0, 0), Vec3(0, 0, -1)>>
              [] e.direction = "Z" -> <<Vec3(0, -1, 0), Vec3(-1, 0, 0)>>
      v1 == v[1]
      v2 == v[2]
      make_bounds(p) == BoundsNew(p[1], p[2], p[3], e.lg_size)
  IN  << make_bounds(e.low_corner),
         make_bounds(Add(e.low_corner, v1)),
         make_bounds(Add(Add(e.low_corner, v1), v2)),
         make_bounds(Add(e.low_corner, v2)) >>

\* .iter().rev()
Rev(s) == [i \in 1..Len(s) |-> s[Len(s) + 1 - i]]

(***************************************************************************)
(* The voxel storage (environment)                                         *)
(***************************************************************************)
\* the cell one level coarser that encompasses b
Parent(b) == BoundsNew(b.x \div 2, b.y \div 2, b.z \div 2, b.lg_size + 1)

\* a cell of the same size next to b: an answer that breaks the contract
Beside(b) == BoundsNew(b.x + 1, b.y, b.z, b.lg_size)

\* the sample a storage keeps for cell b: the centre of the cell
VertexOf(b) ==
  LET s == 4 * Pow2(b.lg_size)
  IN  Vec3((2 * b.x + 1) * s, (2 * b.y + 1) * s, (2 * b.z + 1) * s)

\* ... and its normal, different from cell to cell
NormalOf(b) == Vec3(4 * b.z, 4 * (b.lg_size + 1), 4 * (b.x - b.y))

\* the answers get_material may give for bounds b
get_material(b) ==
  IF b \in DOMAIN materials THEN {materials[b]} ELSE Material \cup {None}

\* the VoxelData a query for b may return: the data of b itself, of the
\* coarser cell around it, or (breaking the contract) of another cell
DataAnswers(b) ==
  {[bounds |-> c, vertex |-> VertexOf(c), normal |-> NormalOf(c)] :
     c \in {b, Parent(b), Beside(b)}}

\* the answers get_voxel_data may give for bounds b
get_voxel_data(b) ==
  IF b \in DOMAIN voxel_data THEN {voxel_data[b]} ELSE DataAnswers(b) \cup {NoData}

Remember(store, b, a) ==
  [c \in DOMAIN store \cup {b} |-> IF c = b THEN a ELSE store[c]]

(***************************************************************************)
(* crossing                                                                *)
(***************************************************************************)
Undefined == [kind |-> "Undefined"]
NoCrossing == [kind |-> "None"]
LowInside(m) == [kind |-> "LowInside", material |-> m]
HighInside(m) == [kind |-> "HighInside", material |-> m]

\* the classification without the test for two opaque materials
ClassifyEqOnly(m, nm) ==
  IF m = nm
  THEN NoCrossing
  ELSE IF is_opaque(m) THEN LowInside(m) ELSE HighInside(nm)

\* the classification tagging a HighInside crossing with the low material
ClassifyLowTag(m, nm) ==
  IF (m = nm) \/ (is_opaque(m) /\ is_opaque(nm))
  THEN NoCrossing
  ELSE IF is_opaque(m) THEN LowInside(m) ELSE HighInside(m)

\* crossing(), lines 134-141: the classification once both materials are known
Classify(m, nm) ==
  IF (m = nm) \/ (is_opaque(m) /\ is_opaque(nm))
  THEN NoCrossing
  ELSE IF is_opaque(m) THEN LowInside(m) ELSE HighInside(nm)

(***************************************************************************)
(* extract                                                                 *)
(***************************************************************************)
Polygon(vs, ns, m) == [vertices |-> vs, normals |-> ns, material |-> m]

\* the neighbours in their natural order whatever the crossing
ResolveOrderNatural(c, e) == neighbors(e)

\* extract, lines 189-194: the order in which the neighbours are handed to
\* resolve_voxels
ResolveOrder(c, e) ==
  IF c.kind = "HighInside" THEN neighbors(e) ELSE Rev(neighbors(e))

\* extract, lines 197-244: the polygons for three or four resolved samples
Assemble(s, m) ==
  IF Len(s) = 3 THEN
    << Polygon(<<s[1][1], s[2][1], s[3][1]>>, <<s[1][2], s[2][2], s[3][2]>>, m) >>
  ELSE
    LET v_center == Div4(Add(Add(Add(s[1][1], s[2][1]), s[3][1]), s[4][1]))
        n_center == Div4(Add(Add(Add(s[1][2], s[2][2]), s[3][2]), s[4][2]))
    IN  << Polygon(<<s[1][1], s[2][1], v_center>>, <<s[1][2], s[2][2], n_center>>, m),
           Polygon(<<s[2][1], s[3][1], v_center>>, <<s[2][2], s[3][2], n_center>>, m),
           Polygon(<<s[3][1], s[4][1], v_center>>, <<s[3][2], s[4][2], n_center>>, m),
           Polygon(<<s[4][1], s[1][1], v_center>>, <<s[4][2], s[1][2], n_center>>, m) >>

\* a vector that keeps what the previous resolution left in it
VecReused(stale) == stale

\* resolve_voxels(), lines 152-153: Vec::new(), whatever the variable held
VecNew(stale) == <<>>

\* the storage has answered nothing yet; extract is entered, its locals unset
Init ==
  /\ edge \in Edges
  /\ materials = <<>>
  /\ voxel_data = <<>>
  /\ call = "first"
  /\ prev = None
  /\ pc = "crossing_low"
  /\ material = None
  /\ neighbor_material = None
  /\ cross = [kind |-> "unset"]
  /\ candidates = <<>>
  /\ idx = 1
  /\ resolved_bounds = <<>>
  /\ resolved_voxel_data = <<>>
  /\ material_calls = <<>>
  /\ data_calls = <<>>
  /\ polys = <<>>
  /\ result = "running"

\* crossing(), line 125: get_material(&b0)
CrossingLow ==
  /\ pc = "crossing_low"
  /\ LET b0 == corner_bounds(edge)[1]
     IN  \E a \in get_material(b0) :
           /\ materials' = Remember(materials, b0, a)
           /\ material_calls' = Append(material_calls, <<b0, a>>)
           /\ IF a = None
              THEN /\ cross' = Undefined
                   /\ result' = "Err"
                   /\ pc' = "done"
                   /\ UNCHANGED material
              ELSE /\ material' = a
                   /\ pc' = "crossing_high"
                   /\ UNCHANGED <<cross, result>>
  /\ UNCHANGED <<edge, voxel_data, neighbor_material, candidates, idx,
                 resolved_bounds, resolved_voxel_data, data_calls, polys, call, prev>>

\* crossing(), lines 130-141, and the match of extract, lines 186-194
CrossingHigh ==
  /\ pc = "crossing_high"
  /\ LET b1 == corner_bounds(edge)[2]
     IN  \E a \in get_material(b1) :
           /\ materials' = Remember(materials, b1, a)
           /\ material_calls' = Append(material_calls, <<b1, a>>)
           /\ IF a = None
              THEN /\ cross' = Undefined
                   /\ result' = "Err"
                   /\ pc' = "done"
                   /\ UNCHANGED <<neighbor_material, candidates, idx,
                                  resolved_bounds, resolved_voxel_data>>
              ELSE /\ neighbor_material' = a
                   /\ cross' = Classify(material, a)
                   /\ IF cross'.kind = "None"
                      THEN /\ result' = "Ok"
                           /\ pc' = "done"
                           /\ UNCHANGED <<candidates, idx, resolved_bounds,
                                          resolved_voxel_data>>
                      ELSE /\ candidates' = ResolveOrder(cross', edge)
                           /\ idx' = 1
                           /\ resolved_voxel_data' = VecNew(resolved_voxel_data)
                           /\ resolved_bounds' = VecNew(resolved_bounds)
                           /\ pc' = "resolve"
                           /\ UNCHANGED result
  /\ UNCHANGED <<edge, voxel_data, material, data_calls, polys, call, prev>>

\* a dedup that only recognises a candidate already in the list
SkippedEq(rb, b) == \E i \in 1..Len(rb) : rb[i] = b

\* a dedup that only looks at the bounds resolved last
SkippedLastOnly(rb, b) == Len(rb) > 0 /\ Contains(rb[Len(rb)], b)

\* resolve_voxels(), lines 156-160: is the candidate inside a resolved bounds?
Skipped(rb, b) == \E i \in 1..Len(rb) : Contains(rb[i], b)

\* resolve_voxels(), lines 155-160: continue 'resolve_loop
ResolveSkip ==
  /\ pc = "resolve"
  /\ idx <= Len(candidates)
  /\ Skipped(resolved_bounds, candidates[idx])
  /\ idx' = idx + 1
  /\ UNCHANGED <<edge, materials, voxel_data, pc, material, neighbor_material,
                 cross, candidates, resolved_bounds, resolved_voxel_data,
                 material_calls, data_calls, polys, result, call, prev>>

\* an absent answer that only drops the candidate
ResolveNoneContinues ==
  /\ idx' = idx + 1
  /\ UNCHANGED <<result, pc, resolved_bounds, resolved_voxel_data>>

\* resolve_voxels(), line 164: None => return Err(()), taken up by try!
ResolveNone ==
  /\ result' = "Err"
  /\ pc' = "done"
  /\ UNCHANGED <<idx, resolved_bounds, resolved_voxel_data>>

\* resolve_voxels(), lines 162-168: query the storage, record the answer
ResolveQuery ==
  /\ pc = "resolve"
  /\ idx <= Len(candidates)
  /\ ~Skipped(resolved_bounds, candidates[idx])
  /\ LET b == candidates[idx]
     IN  \E a \in get_voxel_data(b) :
           /\ voxel_data' = Remember(voxel_data, b, a)
           /\ data_calls' = Append(data_calls, <<b, a>>)
           /\ IF a = NoData
              THEN ResolveNone
              ELSE /\ resolved_bounds' = Append(resolved_bounds, a.bounds)
                   /\ resolved_voxel_data' =
                        Append(resolved_voxel_data, <<a.vertex, a.normal>>)
                   /\ idx' = idx + 1
                   /\ UNCHANGED <<result, pc>>
  /\ UNCHANGED <<edge, materials, material, neighbor_material, cross,
                 candidates, material_calls, polys, call, prev>>

\* extract, lines 197-249: the iterator is exhausted, assemble the polygons
Emit ==
  /\ pc = "resolve"
  /\ idx > Len(candidates)
  /\ IF Len(resolved_voxel_data) \in {3, 4}
     THEN /\ polys' = Assemble(resolved_voxel_data, cross.material)
          /\ result' = "Ok"
     ELSE /\ result' = "panic"
          /\ UNCHANGED polys
  /\ pc' = "done"
  /\ UNCHANGED <<edge, materials, voxel_data, material, neighbor_material,
                 cross, candidates, idx, resolved_bounds, resolved_voxel_data,
                 material_calls, data_calls, call, prev>>

\* the caller invokes extract once more, with the same edge and the storage
\* untouched; the locals of extract are unset until it assigns them
CallAgain ==
  /\ pc = "done"
  /\ call = "first"
  /\ call' = "second"
  /\ prev' = [result |-> result, polys |-> polys]
  /\ pc' = "crossing_low"
  /\ material_calls' = <<>>
  /\ data_calls' = <<>>
  /\ polys' = <<>>
  /\ result' = "running"
  /\ UNCHANGED <<edge, materials, voxel_data, material, neighbor_material,
                 cross, candidates, idx, resolved_bounds, resolved_voxel_data>>

Next == CrossingLow \/ CrossingHigh \/ ResolveSkip \/ ResolveQuery \/ Emit

Spec == Init /\ [][Next]_vars

NextTwice == Next \/ CallAgain

SpecTwice == Init /\ [][NextTwice]_vars

(***************************************************************************)
(* Properties                                                              *)
(***************************************************************************)
\* the answers extract has received from the storage so far
MaterialAnswer(n) == material_calls[n][2]
DataAnswer(n) == data_calls[n][2]

AbsentAnswer ==
  \/ \E n \in 1..Len(material_calls) : MaterialAnswer(n) = None
  \/ \E n \in 1..Len(data_calls) : DataAnswer(n) = NoData

BothMaterials ==
  /\ Len(material_calls) = 2
  /\ MaterialAnswer(1) # None
  /\ MaterialAnswer(2) # None

\* C1: once a storage query issued by extract has returned absent, extract
\* has returned Err and on_polygon has not been invoked.
C1_AbsentIsErrAndNothingEmitted ==
  AbsentAnswer => (pc = "done" /\ result = "Err" /\ polys = <<>>)

\* C1 witness: get_voxel_data returns absent for the third neighbour asked,
\* after two neighbours were resolved.
C1_Witness ==
  /\ Len(data_calls) = 3
  /\ DataAnswer(1) # NoData /\ DataAnswer(2) # NoData /\ DataAnswer(3) = NoData
  /\ result = "Err"

\* C2: when both corner materials are present and are equal or both opaque,
\* extract returns Ok without invoking on_polygon (and without asking for
\* voxel data).
C2_NoCrossingIsOkAndEmpty ==
  (/\ BothMaterials
   /\ \/ MaterialAnswer(1) = MaterialAnswer(2)
      \/ is_opaque(MaterialAnswer(1)) /\ is_opaque(MaterialAnswer(2)))
  => (pc = "done" /\ result = "Ok" /\ polys = <<>> /\ data_calls = <<>>)

\* C2 witness: two distinct opaque materials.
C2_Witness ==
  /\ BothMaterials
  /\ MaterialAnswer(1) = "Stone" /\ MaterialAnswer(2) = "Dirt"
  /\ result = "Ok"

\* C3: when both corner materials are present, differ and are not both
\* opaque, the crossing is LowInside(low material) if the low material is
\* opaque and HighInside(high material) otherwise, and every polygon emitted
\* carries that material.
C3_CrossingMaterialTagsPolygons ==
  (/\ BothMaterials
   /\ MaterialAnswer(1) # MaterialAnswer(2)
   /\ ~(is_opaque(MaterialAnswer(1)) /\ is_opaque(MaterialAnswer(2))))
  => /\ material_calls[1][1] = corner_bounds(edge)[1]
     /\ material_calls[2][1] = corner_bounds(edge)[2]
     /\ IF is_opaque(MaterialAnswer(1))
        THEN cross = [kind |-> "LowInside", material |-> MaterialAnswer(1)]
        ELSE cross = [kind |-> "HighInside", material |-> MaterialAnswer(2)]
     /\ \A k \in 1..Len(polys) : polys[k].material = cross.material

\* C3 witness: neither material is opaque and four polygons were emitted.
C3_Witness ==
  /\ BothMaterials
  /\ MaterialAnswer(1) = "Water" /\ MaterialAnswer(2) = "Air"
  /\ Len(polys) = 4
  /\ polys[4].material = "Air"

Crossed == pc \in {"resolve", "done"} /\ cross.kind \in {"LowInside", "HighInside"}

\* the four cells around edge e, written out coordinate by coordinate
AroundEdge(e) ==
  LET x == e.low_corner[1]
      y == e.low_corner[2]
      z == e.low_corner[3]
      B(a, b, c) == [x |-> a, y |-> b, z |-> c, lg_size |-> e.lg_size]
  IN  CASE e.direction = "X" -> <<B(x, y, z), B(x, y, z - 1), B(x, y - 1, z - 1), B(x, y - 1, z)>>
        [] e.direction = "Y" -> <<B(x, y, z), B(x - 1, y, z), B(x - 1, y, z - 1), B(x, y, z - 1)>>
        [] e.direction = "Z" -> <<B(x, y, z), B(x, y - 1, z), B(x - 1, y - 1, z), B(x - 1, y, z)>>

Abs(i) == IF i < 0 THEN -i ELSE i

\* cells of the same size whose positions differ by 1 in exactly one coordinate
Adjacent(a, b) ==
  /\ a.lg_size = b.lg_size
  /\ Abs(a.x - b.x) + Abs(a.y - b.y) + Abs(a.z - b.z) = 1

\* C10: neighbors(edge) is the four bounds at the edge's size at p, p+v1,
\* p+v1+v2, p+v2 for the offsets of the edge's axis, in that order; the four
\* are pairwise distinct and cyclically consecutive ones differ by 1 in
\* exactly one coordinate.
C10_NeighborsQuadWalk ==
  LET n == neighbors(edge)
  IN  /\ n = AroundEdge(edge)
      /\ Len(n) = 4
      /\ \A i, j \in 1..4 : i # j => n[i] # n[j]
      /\ \A i \in 1..4 : Adjacent(n[i], n[(i % 4) + 1])
      /\ (pc = "resolve" /\ cross.kind = "HighInside") => candidates = AroundEdge(edge)

\* C10 witness: the neighbours of a Y edge were handed to the resolution.
C10_Witness ==
  /\ pc = "resolve"
  /\ cross.kind = "HighInside"
  /\ edge.direction = "Y"
  /\ edge.low_corner = <<1, 0, 1>>
  /\ candidates[2] = [x |-> 0, y |-> 0, z |-> 1, lg_size |-> edge.lg_size]
  /\ candidates[4] = [x |-> 1, y |-> 0, z |-> 0, lg_size |-> edge.lg_size]

\* the positions in candidates of the get_voxel_data calls, in call order
CallPosition(n) == CHOOSE i \in 1..Len(candidates) : candidates[i] = data_calls[n][1]

\* the vertex the storage holds for the i-th neighbour of the edge
NeighborVertex(i) == voxel_data[neighbors(edge)[i]].vertex

\* the first two vertices of the k-th emitted polygon
Side(k) == <<polys[k].vertices[1], polys[k].vertices[2]>>

\* C4: a HighInside crossing hands the neighbours to the resolution in the
\* order 0,1,2,3 and a LowInside crossing in the order 3,2,1,0; the storage
\* is asked in that order; with four samples the sides of the emitted
\* triangles run n0-n1, n1-n2, n2-n3, n3-n0 for HighInside and n3-n2, n2-n1,
\* n1-n0, n0-n3 for LowInside, the same sides with the winding reversed.
C4_OrderFollowsCrossing ==
  Crossed =>
    LET n == neighbors(edge)
    IN  /\ cross.kind = "HighInside" => candidates = <<n[1], n[2], n[3], n[4]>>
        /\ cross.kind = "LowInside" => candidates = <<n[4], n[3], n[2], n[1]>>
        /\ \A a \in 1..Len(data_calls) :
             /\ \E i \in 1..4 : candidates[i] = data_calls[a][1]
             /\ \A b \in 1..Len(data_calls) :
                  a < b => CallPosition(a) < CallPosition(b)
        /\ (Len(polys) = 4 /\ cross.kind = "HighInside") =>
             /\ Side(1) = <<NeighborVertex(1), NeighborVertex(2)>>
             /\ Side(2) = <<NeighborVertex(2), NeighborVertex(3)>>
             /\ Side(3) = <<NeighborVertex(3), NeighborVertex(4)>>
             /\ Side(4) = <<NeighborVertex(4), NeighborVertex(1)>>
        /\ (Len(polys) = 4 /\ cross.kind = "LowInside") =>
             /\ Side(1) = <<NeighborVertex(4), NeighborVertex(3)>>
             /\ Side(2) = <<NeighborVertex(3), NeighborVertex(2)>>
             /\ Side(3) = <<NeighborVertex(2), NeighborVertex(1)>>
             /\ Side(4) = <<NeighborVertex(1), NeighborVertex(4)>>

\* C4 witness: a LowInside crossing with four distinct samples has emitted
\* its four triangles.
C4_Witness ==
  /\ pc = "done"
  /\ cross.kind = "LowInside"
  /\ Len(polys) = 4
  /\ candidates[1] = neighbors(edge)[4]
  /\ \A i, j \in 1..4 : i # j => NeighborVertex(i) # NeighborVertex(j)

\* the k-th sample produced by the resolution, as the storage returned it
Sample(k) == DataAnswer(k)

\* C5: when the resolution yields four samples s1..s4, on_polygon is invoked
\* exactly four times, with (s1,s2,c), (s2,s3,c), (s3,s4,c), (s4,s1,c) in
\* this order, where 4 * c is the sum of the four samples, for the vertices
\* and for the normals alike.
C5_FourSamplesFourTriangles ==
  (pc = "done" /\ result # "Err" /\ Len(data_calls) = 4) =>
    /\ result = "Ok"
    /\ Len(polys) = 4
    /\ \A k \in 1..4 :
         LET k2 == (k % 4) + 1
             vc == polys[k].vertices[3]
             nc == polys[k].normals[3]
         IN  /\ Len(polys[k].vertices) = 3 /\ Len(polys[k].normals) = 3
             /\ polys[k].vertices[1] = Sample(k).vertex
             /\ polys[k].vertices[2] = Sample(k2).vertex
             /\ polys[k].normals[1] = Sample(k).normal
             /\ polys[k].normals[2] = Sample(k2).normal
             /\ \A i \in 1..3 :
                  /\ 4 * vc[i] = Sample(1).vertex[i] + Sample(2).vertex[i]
                                 + Sample(3).vertex[i] + Sample(4).vertex[i]
                  /\ 4 * nc[i] = Sample(1).normal[i] + Sample(2).normal[i]
                                 + Sample(3).normal[i] + Sample(4).normal[i]

\* C5 witness: four distinct bounds, none inside another, were resolved and
\* the centre is not one of the samples.
C5_Witness ==
  /\ pc = "done"
  /\ Len(polys) = 4
  /\ Len(resolved_bounds) = 4
  /\ \A i, j \in 1..4 : i # j => ~Contains(resolved_bounds[i], resolved_bounds[j])
  /\ \A k \in 1..4 : polys[1].vertices[3] # Sample(k).vertex

\* the storage was asked for the voxel data of b, and what it returned
Asked(b) == b \in DOMAIN voxel_data
Returned(b) == voxel_data[b]

\* candidates i < j resolve to the same coarser bounds: the bounds returned
\* for i is coarser than the candidates and encompasses both of them, and the
\* other two candidates were resolved to two further, distinct bounds
SharedCoarser(i, j) ==
  /\ i < j
  /\ Asked(candidates[i])
  /\ Returned(candidates[i]) # NoData
  /\ LET shared == Returned(candidates[i]).bounds
         others == (1..4) \ {i, j}
     IN  /\ shared.lg_size > candidates[i].lg_size
         /\ Contains(shared, candidates[i])
         /\ Contains(shared, candidates[j])
         /\ Asked(candidates[j]) => Returned(candidates[j]) = Returned(candidates[i])
         /\ \A k \in others :
              /\ Asked(candidates[k])
              /\ Returned(candidates[k]) # NoData
              /\ Returned(candidates[k]).bounds # shared
         /\ \A k, l \in others :
              k # l => Returned(candidates[k]).bounds # Returned(candidates[l]).bounds

\* the triangle made of the samples of candidates p, q, r, in this order
Triangle(p, q, r) ==
  [vertices |-> <<Returned(candidates[p]).vertex, Returned(candidates[q]).vertex,
                  Returned(candidates[r]).vertex>>,
   normals |-> <<Returned(candidates[p]).normal, Returned(candidates[q]).normal,
                 Returned(candidates[r]).normal>>,
   material |-> cross.material]

\* C6: when two of the four candidates resolve to the same coarser bounds and
\* the other two to distinct bounds, the resolution yields exactly 3 samples
\* and on_polygon is invoked exactly once, with the samples of the three
\* surviving candidates in the order in which they were presented.
C6_SharedCoarserGivesOneTriangle ==
  \A i, j \in 1..4 :
    (Crossed /\ pc = "done" /\ result # "Err" /\ SharedCoarser(i, j)) =>
      /\ result = "Ok"
      /\ Len(resolved_voxel_data) = 3
      /\ Len(data_calls) = 3
      /\ \E p, q, r \in (1..4) \ {j} :
           /\ p < q /\ q < r
           /\ polys = << Triangle(p, q, r) >>

\* C6 witness: the second and the third candidate share a coarser cell, under
\* a LowInside crossing, and the one triangle was emitted.
C6_Witness ==
  /\ Crossed /\ pc = "done"
  /\ cross.kind = "LowInside"
  /\ SharedCoarser(2, 3)
  /\ Len(polys) = 1
  /\ polys[1].vertices[2] = VertexOf(Parent(candidates[3]))

\* every answer given to this extract contains the bounds it was asked for
ContractObeyed ==
  \A n \in 1..Len(data_calls) :
    DataAnswer(n) # NoData => Contains(DataAnswer(n).bounds, data_calls[n][1])

\* C7: with a storage that answers every query and obeys the containment
\* contract, the resolution of a crossing edge yields 3 or 4 samples and
\* extract does not panic.
C7_NoPanicUnderContract ==
  (Crossed /\ pc = "done" /\ ~AbsentAnswer /\ ContractObeyed) =>
    /\ Len(resolved_voxel_data) \in {3, 4}
    /\ result # "panic"

\* the candidates the loop of resolve_voxels has gone through
Processed ==
  IF pc = "done" /\ result = "Err" THEN 1..idx ELSE 1..(idx - 1)

\* the get_voxel_data calls made with the i-th candidate
CallsFor(i) == {n \in 1..Len(data_calls) : data_calls[n][1] = candidates[i]}

\* a successful call made for an earlier candidate returned bounds around the i-th
CoveredEarlier(i) ==
  \E n \in 1..Len(data_calls) :
    /\ DataAnswer(n) # NoData
    /\ \E h \in 1..(i - 1) : data_calls[n][1] = candidates[h]
    /\ Contains(DataAnswer(n).bounds, candidates[i])

\* the successful calls, in call order
Successes == SelectSeq(data_calls, LAMBDA c : c[2] # NoData)

\* C9: during a resolution a candidate is skipped (never asked for) exactly
\* when bounds returned by an earlier successful call contain it; a candidate
\* not skipped is asked for exactly once; the bounds recorded are the ones
\* the storage returned and one (vertex, normal) pair is appended per
\* successful call, so a resolution that succeeds has as many samples as
\* calls.
C9_DedupByReturnedBounds ==
  Crossed =>
    /\ \A i \in Processed :
         /\ CoveredEarlier(i) <=> CallsFor(i) = {}
         /\ ~CoveredEarlier(i) => Cardinality(CallsFor(i)) = 1
    /\ \A i \in (1..4) \ Processed : CallsFor(i) = {}
    /\ \A n \in 1..Len(data_calls) : \E i \in 1..4 : data_calls[n][1] = candidates[i]
    /\ Len(resolved_bounds) = Len(Successes)
    /\ Len(resolved_voxel_data) = Len(Successes)
    /\ \A n \in 1..Len(Successes) :
         /\ resolved_bounds[n] = Successes[n][2].bounds
         /\ resolved_voxel_data[n] = <<Successes[n][2].vertex, Successes[n][2].normal>>
    /\ result # "Err" => Len(resolved_voxel_data) = Len(data_calls)

\* C9 witness: the last candidate was skipped because of the bounds returned
\* for the first one, which is not the bounds asked for; the two candidates
\* in between were asked for.
C9_Witness ==
  /\ Crossed /\ pc = "done"
  /\ Len(data_calls) = 3
  /\ Len(resolved_bounds) = 3
  /\ CallsFor(4) = {}
  /\ CallsFor(1) # {} /\ CallsFor(2) # {} /\ CallsFor(3) # {}
  /\ resolved_bounds[1] # candidates[1]
  /\ Contains(resolved_bounds[1], candidates[4])
  /\ ~Contains(resolved_bounds[3], candidates[4])

\* C8: a second call of extract with the same edge, against a storage whose
\* answers have not changed, returns the same result and hands the same
\* polygons, in the same order, to on_polygon.
C8_SecondCallSameOutput ==
  (call = "second" /\ pc = "done") => (result = prev.result /\ polys = prev.polys)

\* C8 witness: the second call has emitted four polygons, after a first
\* resolution that left its four bounds behind.
C8_Witness ==
  /\ call = "second" /\ pc = "done"
  /\ Len(polys) = 4
  /\ prev.result = "Ok"
  /\ Len(data_calls) = 4

====
